---- MODULE Spec2Model ----
(***************************************************************************)
(* A model of build_kicad_library.py: the CSV -> SQLite table builder      *)
(* (update_database), the KiCad descriptor generator (generate_kicad_dbl)  *)
(* and the script's main block.                                            *)
(*                                                                         *)
(* Names (file names, headers, table and column names) are sequences of    *)
(* one-character strings, so that sanitising, lower-casing and title-      *)
(* casing are computed character by character as the code does.  Cell      *)
(* values of data rows are never inspected by the script and are plain     *)
(* strings.                                                                *)
(***************************************************************************)
EXTENDS Integers, Sequences, FiniteSets, TLC

\* ------------------------------------------------------------------ bounds
\* Longest entry of a folder listing.
MaxFiles == 2
\* Number of consecutive runs of the script against the same database file.
MaxRuns == 2
\* Longest input string tried on sanitize_sql_name.
MaxLen == 3

\* ------------------------------------------------------------- characters
LowerChars ==
    << "a", "b", "c", "d", "e", "f", "g", "h", "i", "j", "k", "l", "m",
       "n", "o", "p", "q", "r", "s", "t", "u", "v", "w", "x", "y", "z" >>

UpperChars ==
    << "A", "B", "C", "D", "E", "F", "G", "H", "I", "J", "K", "L", "M",
       "N", "O", "P", "Q", "R", "S", "T", "U", "V", "W", "X", "Y", "Z" >>

Letters == DOMAIN LowerChars

DigitChars == {"0", "1", "2", "3", "4", "5", "6", "7", "8", "9"}

LowerSet == { LowerChars[i] : i \in Letters }

UpperSet == { UpperChars[i] : i \in Letters }

\* The lower-case letter of each upper-case letter, and the converse.
ToLower == [c \in UpperSet |-> LowerChars[CHOOSE i \in Letters : UpperChars[i] = c]]

ToUpper == [c \in LowerSet |-> UpperChars[CHOOSE i \in Letters : LowerChars[i] = c]]

isdigit(c) == c \in DigitChars

islower(c) == c \in LowerSet

isupper(c) == c \in UpperSet

\* A cased character (str.title() starts a new word after an uncased one).
iscased(c) == islower(c) \/ isupper(c)

lowerChar(c) == IF isupper(c) THEN ToLower[c] ELSE c

upperChar(c) == IF islower(c) THEN ToUpper[c] ELSE c

\* str.lower()
lower(s) == [i \in 1..Len(s) |-> lowerChar(s[i])]

\* str.title(): a cased character is upper-cased when it follows an uncased
\* character (or starts the string) and lower-cased otherwise.
title(s) ==
    [i \in 1..Len(s) |->
        IF i = 1 \/ ~iscased(s[i - 1]) THEN upperChar(s[i]) ELSE lowerChar(s[i])]

\* str.replace('_', ' ')
replace_underscore(s) == [i \in 1..Len(s) |-> IF s[i] = "_" THEN " " ELSE s[i]]

\* needle in haystack (substring test)
contains(haystack, needle) ==
    \E k \in 0..(Len(haystack) - Len(needle)) :
        \A j \in 1..Len(needle) : haystack[k + j] = needle[j]

\* str.endswith
endswith(s, suffix) ==
    /\ Len(s) >= Len(suffix)
    /\ \A j \in 1..Len(suffix) : s[Len(s) - Len(suffix) + j] = suffix[j]

\* ------------------------------------------------------ sanitize_sql_name
\* re.sub(r'[ -]', '_', name)
sub_space_hyphen(name) ==
    [i \in 1..Len(name) |-> IF name[i] \in {" ", "-"} THEN "_" ELSE name[i]]

\* a character of [a-zA-Z0-9_]
is_word_char(c) == iscased(c) \/ isdigit(c) \/ c = "_"

\* re.sub(r'[^a-zA-Z0-9_]', '', clean)
strip_non_word(clean) == SelectSeq(clean, is_word_char)

\* The digit test made on the name before the strip instead of after it.
sanitize_digit_test_before_strip(name) ==
    LET replaced == sub_space_hyphen(name)
        clean == strip_non_word(replaced)
    IN  IF replaced # << >> /\ isdigit(replaced[1]) THEN << "_" >> \o clean ELSE clean

sanitize_sql_name(name) ==
    LET clean == strip_non_word(sub_space_hyphen(name))
    IN  IF clean # << >> /\ isdigit(clean[1]) THEN << "_" >> \o clean ELSE clean

\* ------------------------------------------------ get_column_display_name
MPN == << "m", "p", "n" >>
LCSC == << "l", "c", "s", "c" >>
MFG == << "m", "f", "g" >>

get_column_display_name(col_name) ==
    IF lower(col_name) = MPN THEN << "M", "P", "N" >>
    ELSE IF lower(col_name) = LCSC THEN << "L", "C", "S", "C" >>
    ELSE IF lower(col_name) = MFG
         THEN << "M", "a", "n", "u", "f", "a", "c", "t", "u", "r", "e", "r" >>
    ELSE title(replace_underscore(col_name))

\* ---------------------------------------------------------- configuration
part_id == << "p", "a", "r", "t", "_", "i", "d" >>
symbol == << "s", "y", "m", "b", "o", "l" >>
footprint == << "f", "o", "o", "t", "p", "r", "i", "n", "t" >>
value == << "v", "a", "l", "u", "e" >>
rating == << "r", "a", "t", "i", "n", "g" >>
Value == << "V", "a", "l", "u", "e" >>
locked == << "l", "o", "c", "k", "e", "d" >>
dot_csv == << ".", "c", "s", "v" >>

SYSTEM_COLUMNS == << part_id, symbol, footprint >>

VISIBLE_COLUMNS == << value, rating >>

\* x in list
in_list(x, list) == \E i \in 1..Len(list) : list[i] = x

\* ------------------------------------------------------------ source folder
\* The CSV files the folder may hold.  lines is the file as csv.reader yields
\* it (a blank line is the empty row); err is "unreadable" for a file that
\* open() refuses or whose bytes do not decode, "none" otherwise.
FilePool ==
    << \* a b.csv: a complete part table; one long row and one short row
       [ name  |-> << "a", " ", "b", ".", "c", "s", "v" >>,
         err   |-> "none",
         lines |-> << << part_id, symbol, footprint, value >>,
                      << "p1", "s1", "f1", "v1", "extra" >>,
                      << "p2" >> >> ],
       \* a-b.csv: two headers that are one column name to SQLite
       [ name  |-> << "a", "-", "b", ".", "c", "s", "v" >>,
         err   |-> "none",
         lines |-> << << << "x" >>, << "X" >> >>, << "p3", "q" >> >> ],
       \* A_B.CSV: other spellings of the key, symbol and footprint headers
       [ name  |-> << "A", "_", "B", ".", "C", "S", "V" >>,
         err   |-> "none",
         lines |-> << << << "i", "d" >>,
                         << "S", "y", "m", "b", "o", "l" >>,
                         << "F", "o", "o", "t", "p", "r", "i", "n", "t" >>,
                         << "m", "f", "g" >> >>,
                      << "p1", "s9", "f9", "m9" >> >> ],
       \* 7r.csv: the same key twice
       [ name  |-> << "7", "r", ".", "c", "s", "v" >>,
         err   |-> "none",
         lines |-> << << part_id, symbol, footprint >>,
                      << "k", "s", "f" >>,
                      << "k", "t", "g" >> >> ],
       \* c.csv: no footprint header, and a header that sanitises to ''
       [ name  |-> << "c", ".", "c", "s", "v" >>,
         err   |-> "none",
         lines |-> << << part_id, symbol, << "!" >>, Value >>,
                      << "p5", "s5", "n5", "v5" >> >> ],
       \* e.csv: no line at all
       [ name  |-> << "e", ".", "c", "s", "v" >>,
         err   |-> "none",
         lines |-> << >> ],
       \* h.csv: a blank first line
       [ name  |-> << "h", ".", "c", "s", "v" >>,
         err   |-> "none",
         lines |-> << << >>, << "p6" >> >> ],
       \* d.csv: cannot be read
       [ name  |-> << "d", ".", "c", "s", "v" >>,
         err   |-> "unreadable",
         lines |-> << >> ],
       \* l.csv: a duplicated header named locked
       [ name  |-> << "l", ".", "c", "s", "v" >>,
         err   |-> "none",
         lines |-> << << locked, locked >> >> ],
       \* n.txt: not a CSV file
       [ name  |-> << "n", ".", "t", "x", "t" >>,
         err   |-> "none",
         lines |-> << << part_id >> >> ] >>

FileIds == DOMAIN FilePool

\* os.listdir(csv_folder): distinct entries in an arbitrary order.
Listings ==
    { l \in UNION { [1..n -> FileIds] : n \in 0..MaxFiles } :
        \A i, j \in DOMAIN l : i # j => l[i] # l[j] }

\* What a run finds on disk: the folder may be missing.
Folders ==
    { [exists |-> FALSE, listing |-> << >>] }
        \cup { [exists |-> TRUE, listing |-> l] : l \in Listings }

\* os.path.splitext(filename)[0]: the name up to its last dot, leading dots
\* not counting as an extension separator.
splitext_root(filename) ==
    LET dots == { i \in 1..Len(filename) : filename[i] = "." }
    IN  IF dots = {} THEN filename
        ELSE LET d == CHOOSE i \in dots : \A j \in dots : j <= i
             IN  IF \A j \in 1..d : filename[j] = "." THEN filename
                 ELSE SubSeq(filename, 1, d - 1)

\* [f for f in os.listdir(csv_folder) if f.lower().endswith('.csv')]
list_csv_files(entries) ==
    SelectSeq(entries, LAMBDA f : endswith(lower(FilePool[f].name), dot_csv))

\* Pad or truncate a row to the header count.
normalize_row(row, n) ==
    [i \in 1..n |-> IF i <= Len(row) THEN row[i] ELSE ""]

\* headers = [sanitize_sql_name(h) for h in raw_headers]
sanitize_headers(raw_headers) ==
    [i \in 1..Len(raw_headers) |-> sanitize_sql_name(raw_headers[i])]

\* The for loop over the remaining rows of the reader.
normalize_rows(rows, n) == [i \in 1..Len(rows) |-> normalize_row(rows[i], n)]

\* ------------------------------------------------------------------ SQLite
\* Messages of sqlite3.OperationalError.
msg_locked ==
    << "d", "a", "t", "a", "b", "a", "s", "e", " ", "i", "s", " ",
       "l", "o", "c", "k", "e", "d" >>

msg_incomplete_input ==
    << "i", "n", "c", "o", "m", "p", "l", "e", "t", "e", " ",
       "i", "n", "p", "u", "t" >>

msg_duplicate_column(col) ==
    << "d", "u", "p", "l", "i", "c", "a", "t", "e", " ", "c", "o", "l", "u", "m", "n",
       " ", "n", "a", "m", "e", ":", " " >> \o col

\* Message of sqlite3.IntegrityError.
msg_unique_failed ==
    << "U", "N", "I", "Q", "U", "E", " ", "c", "o", "n", "s", "t", "r", "a", "i", "n", "t",
       " ", "f", "a", "i", "l", "e", "d" >>

TEXT == << "T", "E", "X", "T" >>

\* The column a definition "{col} TEXT" declares: with an empty col the type
\* word itself is read as the column name.
declared_column(col) == IF col = << >> THEN TEXT ELSE col

\* The second of two definitions that declare one column (names compare
\* without case), or 0.
duplicate_column(cols) ==
    LET dups == { i \in 1..Len(cols) :
                    \E j \in 1..(i - 1) :
                        lower(declared_column(cols[j])) = lower(declared_column(cols[i])) }
    IN  IF dups = {} THEN 0 ELSE CHOOSE i \in dups : \A j \in dups : i <= j

\* DROP TABLE IF EXISTS {table_name}: table names compare without case.
drop_table(tables, name) == { t \in tables : lower(t.name) # lower(name) }

\* CREATE TABLE {table_name} (...): an empty table.
create_table(tables, name, cols) ==
    tables \cup { [ name |-> name,
                    cols |-> [i \in 1..Len(cols) |-> declared_column(cols[i])],
                    rows |-> << >> ] }

\* The first row whose key (first column) repeats an earlier row's, or 0.
first_duplicate_key(rows) ==
    LET dups == { i \in 1..Len(rows) : \E j \in 1..(i - 1) : rows[j][1] = rows[i][1] }
    IN  IF dups = {} THEN 0 ELSE CHOOSE i \in dups : \A j \in dups : i <= j

\* conn.commit(): the pending rows become the table's rows.
commit_rows(tables, name, rows) ==
    { IF lower(t.name) = lower(name) THEN [t EXCEPT !.rows = rows] ELSE t : t \in tables }

\* "locked" in str(e)
is_locked_error(msg) == contains(msg, locked)

\* ------------------------------------------------------------------- state
VARIABLES
    run,              \* number of the current run of the script
    folder,           \* what this run finds on disk: [exists, listing]
    pc,               \* position of the script
    csv_files,        \* update_database: the .csv entries of the listing
    idx,              \* update_database: position of the for loop in csv_files
    conn,             \* the sqlite3 connection: "none", "open" or "closed"
    in_transaction,   \* the connection has an uncommitted transaction
    file_open,        \* a CSV file handle is open
    raw_name,         \* update_database locals of the current file
    table_name,
    headers,
    rows_to_insert,
    db,               \* the rows the connection sees (committed or pending)
    disk_db,          \* the database file: committed tables only
    processed_tables, \* update_database: TableSpecs recorded so far
    tables_found,     \* __main__: what update_database returned
    libraries,        \* generate_kicad_dbl: dbl_data['libraries']
    gidx,             \* generate_kicad_dbl: position of the for loop
    dbl_written,      \* what this run wrote to dbl_file, once it has
    log,              \* console output of this run, with the file it is about
    exit_status,      \* -1 while the process runs, then its exit status
    prev_db,          \* history: the database file when this run started
    san_pc,           \* sanitize_sql_name applied to a string: steps taken,
    san_x,            \*   the string,
    san_y,            \*   sanitize_sql_name(san_x),
    san_z             \*   sanitize_sql_name(san_y)

locals == << raw_name, table_name, headers, rows_to_insert >>
sanv == << san_pc, san_x, san_y, san_z >>
genv == << libraries, gidx, dbl_written >>
dbv == << db, disk_db, in_transaction >>
envv == << run, folder, prev_db >>

vars ==
    << run, folder, pc, csv_files, idx, conn, in_transaction, file_open, raw_name,
       table_name, headers, rows_to_insert, db, disk_db, processed_tables,
       tables_found, libraries, gidx, dbl_written, log, exit_status, prev_db,
       san_pc, san_x, san_y, san_z >>

\* A console line.  file is the position in csv_files of the file being
\* handled when the line is printed (0 outside the loop); cause is the message
\* of the exception whose handler prints it (empty when there is none).
Line(kind, file, cause) == [kind |-> kind, file |-> file, cause |-> cause]

\* print(...)
print_line(kind, file) == log' = Append(log, Line(kind, file, << >>))

\* The state of a freshly started process.
ProcessStart ==
    /\ pc = "start"
    /\ csv_files = << >>
    /\ idx = 0
    /\ conn = "none"
    /\ in_transaction = FALSE
    /\ file_open = FALSE
    /\ raw_name = << >>
    /\ table_name = << >>
    /\ headers = << >>
    /\ rows_to_insert = << >>
    /\ processed_tables = << >>
    /\ tables_found = << >>
    /\ libraries = << >>
    /\ gidx = 0
    /\ log = << >>
    /\ exit_status = -1

SanIdle == san_pc = 0 /\ san_x = << >> /\ san_y = << >> /\ san_z = << >>

Init ==
    /\ run = 1
    /\ folder \in Folders
    /\ db = {}
    /\ disk_db = {}
    /\ prev_db = {}
    /\ dbl_written = [exists |-> FALSE, libraries |-> << >>]
    /\ ProcessStart
    /\ SanIdle

\* ---------------------------------------------------------- update_database
\* continue: on to the next file of the loop.
Continue == idx' = idx + 1 /\ pc' = "loop"

\* Lines 57-73: the folder scan and sqlite3.connect.
UpdateDatabaseStart ==
    /\ pc = "start"
    /\ IF ~folder.exists
       THEN /\ log' = log \o << Line("PHASE1", 0, << >>), Line("NO_FOLDER", 0, << >>) >>
            /\ tables_found' = << >>
            /\ pc' = "main"
            /\ UNCHANGED << csv_files, idx, conn, db >>
       ELSE LET found == list_csv_files(folder.listing)
            IN  /\ csv_files' = found
                /\ IF found = << >>
                   THEN /\ log' = log \o << Line("PHASE1", 0, << >>),
                                            Line("NO_CSV", 0, << >>) >>
                        /\ tables_found' = << >>
                        /\ pc' = "main"
                        /\ UNCHANGED << idx, conn, db >>
                   ELSE /\ print_line("PHASE1", 0)
                        /\ conn' = "open"
                        /\ db' = disk_db
                        /\ idx' = 1
                        /\ pc' = "loop"
                        /\ UNCHANGED tables_found
    /\ UNCHANGED << envv, locals, sanv, genv, disk_db, in_transaction, file_open,
                    processed_tables, exit_status >>

\* Lines 75-84 and 137-138: the head of the for loop; past the last file,
\* conn.close() and return.
LoopHead ==
    /\ pc = "loop"
    /\ IF idx > Len(csv_files)
       THEN /\ conn' = "closed"
            /\ tables_found' = processed_tables
            /\ pc' = "main"
            /\ UNCHANGED locals
       ELSE LET filename == FilePool[csv_files[idx]].name
            IN  /\ raw_name' = splitext_root(filename)
                /\ table_name' = sanitize_sql_name(splitext_root(filename))
                /\ rows_to_insert' = << >>
                /\ headers' = << >>
                /\ pc' = "open"
                /\ UNCHANGED << conn, tables_found >>
    /\ UNCHANGED << envv, sanv, genv, dbv, csv_files, idx, file_open,
                    processed_tables, log, exit_status >>

\* Line 87: open(full_csv_path).  An unreadable file fails here (open()
\* raises) or at the first read; either error goes to the handler of line 106.
OpenCsv ==
    /\ pc = "open"
    /\ \E refused \in BOOLEAN :
        IF refused
        THEN /\ FilePool[csv_files[idx]].err = "unreadable"
             /\ print_line("ERROR_READ", idx)
             /\ Continue
             /\ UNCHANGED file_open
        ELSE /\ file_open' = TRUE
             /\ pc' = "read"
             /\ UNCHANGED << idx, log >>
    /\ UNCHANGED << envv, locals, sanv, genv, dbv, csv_files, conn,
                    processed_tables, tables_found, exit_status >>

\* Lines 88-108: the body of the with block; leaving it closes the file.
ReadCsv ==
    /\ pc = "read"
    /\ file_open
    /\ file_open' = FALSE
    /\ LET f == FilePool[csv_files[idx]]
       IN  IF f.err = "unreadable"
           THEN /\ print_line("ERROR_READ", idx)
                /\ Continue
                /\ UNCHANGED locals
           ELSE IF f.lines = << >>
           THEN /\ print_line("SKIPPING", idx)
                /\ Continue
                /\ UNCHANGED locals
           ELSE LET hs == sanitize_headers(Head(f.lines))
                IN  /\ headers' = hs
                    /\ IF hs = << >>
                       THEN /\ Continue
                            /\ UNCHANGED << rows_to_insert, log >>
                       ELSE /\ rows_to_insert' = normalize_rows(Tail(f.lines), Len(hs))
                            /\ pc' = "drop"
                            /\ UNCHANGED << idx, log >>
                    /\ UNCHANGED << raw_name, table_name >>
    /\ UNCHANGED << envv, sanv, genv, dbv, csv_files, conn,
                    processed_tables, tables_found, exit_status >>

\* Lines 131-135: except sqlite3.OperationalError.  A message holding
\* "locked" ends the process through sys.exit(1); any other is printed and
\* the loop goes on.
HandleOperationalError(msg) ==
    IF is_locked_error(msg)
    THEN /\ log' = Append(log, Line("LOCKED", idx, msg))
         /\ exit_status' = 1
         /\ pc' = "exited"
         /\ UNCHANGED idx
    ELSE /\ log' = Append(log, Line("SQL_ERROR", idx, msg))
         /\ Continue
         /\ UNCHANGED exit_status

\* Line 112: DROP TABLE IF EXISTS.  Outside a transaction the statement
\* commits by itself.
ExecDrop ==
    /\ pc = "drop"
    /\ \E busy \in BOOLEAN :
        IF table_name = << >>
        THEN /\ ~busy
             /\ HandleOperationalError(msg_incomplete_input)
             /\ UNCHANGED << db, disk_db >>
        ELSE IF busy
        THEN /\ HandleOperationalError(msg_locked)
             /\ UNCHANGED << db, disk_db >>
        ELSE /\ db' = drop_table(db, table_name)
             /\ disk_db' = IF in_transaction THEN disk_db ELSE drop_table(db, table_name)
             /\ pc' = "create"
             /\ UNCHANGED << idx, log, exit_status >>
    /\ UNCHANGED << envv, locals, sanv, genv, in_transaction, csv_files, conn, file_open,
                    processed_tables, tables_found >>

\* Lines 115-116: CREATE TABLE, the first column the primary key.
ExecCreate ==
    /\ pc = "create"
    /\ \E busy \in BOOLEAN :
        IF busy
        THEN /\ HandleOperationalError(msg_locked)
             /\ UNCHANGED << db, disk_db >>
        ELSE IF duplicate_column(headers) # 0
        THEN /\ HandleOperationalError(
                    msg_duplicate_column(declared_column(headers[duplicate_column(headers)])))
             /\ UNCHANGED << db, disk_db >>
        ELSE /\ db' = create_table(db, table_name, headers)
             /\ disk_db' = IF in_transaction THEN disk_db
                           ELSE create_table(db, table_name, headers)
             /\ pc' = "insert"
             /\ UNCHANGED << idx, log, exit_status >>
    /\ UNCHANGED << envv, locals, sanv, genv, in_transaction, csv_files, conn, file_open,
                    processed_tables, tables_found >>

\* Lines 118-119: executemany(INSERT ...) opens a transaction and inserts row
\* by row.  A repeated key raises sqlite3.IntegrityError, which no handler of
\* the script catches: the interpreter prints the traceback and the process
\* ends with status 1.
ExecInsert ==
    /\ pc = "insert"
    /\ \E busy \in BOOLEAN :
        IF busy
        THEN /\ HandleOperationalError(msg_locked)
             /\ UNCHANGED << db, in_transaction >>
        ELSE LET d == first_duplicate_key(rows_to_insert)
             IN  IF d # 0
                 THEN /\ db' = commit_rows(db, table_name, SubSeq(rows_to_insert, 1, d - 1))
                      /\ in_transaction' = TRUE
                      /\ log' = Append(log, Line("TRACEBACK", idx, msg_unique_failed))
                      /\ exit_status' = 1
                      /\ pc' = "exited"
                      /\ UNCHANGED idx
                 ELSE /\ db' = commit_rows(db, table_name, rows_to_insert)
                      /\ in_transaction' = TRUE
                      /\ pc' = "commit"
                      /\ UNCHANGED << idx, log, exit_status >>
    /\ UNCHANGED << envv, locals, sanv, genv, disk_db, csv_files, conn, file_open,
                    processed_tables, tables_found >>

\* "Capacitors" for the file stem capacitors.
display_name(stem) == title(replace_underscore(stem))

\* Lines 120-129: conn.commit(), the [OK] line and the TableSpec.
ExecCommit ==
    /\ pc = "commit"
    /\ \E busy \in BOOLEAN :
        IF busy
        THEN /\ HandleOperationalError(msg_locked)
             /\ UNCHANGED << disk_db, in_transaction, processed_tables >>
        ELSE /\ disk_db' = db
             /\ in_transaction' = FALSE
             /\ print_line("OK", idx)
             /\ processed_tables' =
                    Append(processed_tables,
                           [ display_name |-> display_name(raw_name),
                             table_name   |-> table_name,
                             columns      |-> headers ])
             /\ Continue
             /\ UNCHANGED exit_status
    /\ UNCHANGED << envv, locals, sanv, genv, db, csv_files, conn, file_open, tables_found >>

\* ------------------------------------------------------- generate_kicad_dbl
\* Python's None, as next(..., None) returns it; like '' it is false.
None == << >>

\* The column matched with == instead of after lower().
find_column_case_sensitive(cols, want) ==
    LET hits == { i \in 1..Len(cols) : cols[i] = want }
    IN  IF hits = {} THEN None ELSE cols[CHOOSE i \in hits : \A j \in hits : i <= j]

\* next((c for c in cols if c.lower() == want), None)
find_column(cols, want) ==
    LET hits == { i \in 1..Len(cols) : lower(cols[i]) = want }
    IN  IF hits = {} THEN None ELSE cols[CHOOSE i \in hits : \A j \in hits : i <= j]

\* properties[key] = col on a dict held as a set of << key, column >> pairs.
dict_set(d, key, col) == { p \in d : p[1] # key } \cup { << key, col >> }

\* Lines 189-192, for the columns i.. in order.
RECURSIVE build_properties(_, _, _)
build_properties(cols, i, props) ==
    IF i > Len(cols) THEN props
    ELSE build_properties(cols, i + 1,
            IF lower(cols[i]) = value
            THEN dict_set(props, Value, cols[i])
            ELSE dict_set(props, cols[i], cols[i]))

\* Lines 198-205.
field_entry(col) ==
    [ column             |-> col,
      name               |-> get_column_display_name(col),
      visible_on_add     |-> in_list(lower(col),
                                [i \in 1..Len(VISIBLE_COLUMNS) |-> lower(VISIBLE_COLUMNS[i])]),
      visible_in_chooser |-> TRUE ]

\* Lines 183-206: one field per column that is not in SYSTEM_COLUMNS.
build_fields(cols) ==
    LET shown == SelectSeq(cols, LAMBDA c : ~in_list(c, SYSTEM_COLUMNS))
    IN  [i \in 1..Len(shown) |-> field_entry(shown[i])]

\* Lines 209-217.
lib_entry(table) ==
    [ name       |-> table.display_name,
      table      |-> table.table_name,
      key        |-> table.columns[1],
      symbols    |-> find_column(table.columns, symbol),
      footprints |-> find_column(table.columns, footprint),
      fields     |-> build_fields(table.columns),
      properties |-> build_properties(table.columns, 1, {}) ]

\* Lines 238-239: phase 2 runs only if tables were found.
MainAfterPhase1 ==
    /\ pc = "main"
    /\ pc' = IF tables_found # << >> THEN "gen_start" ELSE "done"
    /\ UNCHANGED << envv, locals, sanv, genv, dbv, csv_files, idx, conn, file_open,
                    processed_tables, tables_found, log, exit_status >>

\* Lines 145-162.
GenStart ==
    /\ pc = "gen_start"
    /\ print_line("PHASE2", 0)
    /\ libraries' = << >>
    /\ gidx' = 1
    /\ pc' = "gen_loop"
    /\ UNCHANGED << envv, locals, sanv, dbv, csv_files, idx, conn, file_open,
                    processed_tables, tables_found, dbl_written, exit_status >>

\* Lines 164-219: one iteration of the loop over tables_data.
GenTable ==
    /\ pc = "gen_loop"
    /\ gidx <= Len(tables_found)
    /\ LET table == tables_found[gidx]
           sym_col == find_column(table.columns, symbol)
           fp_col == find_column(table.columns, footprint)
       IN  IF sym_col = None \/ fp_col = None
           THEN /\ print_line("WARNING", 0)
                /\ UNCHANGED libraries
           ELSE /\ libraries' = Append(libraries, lib_entry(table))
                /\ UNCHANGED log
    /\ gidx' = gidx + 1
    /\ UNCHANGED << envv, locals, sanv, dbv, csv_files, idx, conn, file_open, pc,
                    processed_tables, tables_found, dbl_written, exit_status >>

\* Lines 222-227: json.dump to dbl_file; a failure to write is printed.
GenWrite ==
    /\ pc = "gen_loop"
    /\ gidx > Len(tables_found)
    /\ \E ok \in BOOLEAN :
        IF ok
        THEN /\ dbl_written' = [exists |-> TRUE, libraries |-> libraries]
             /\ print_line("SUCCESS", 0)
        ELSE /\ print_line("ERROR_WRITE", 0)
             /\ UNCHANGED dbl_written
    /\ pc' = "done"
    /\ UNCHANGED << envv, locals, sanv, dbv, csv_files, idx, conn, file_open,
                    processed_tables, tables_found, libraries, gidx, exit_status >>

\* Lines 241-243: the script ends normally.
MainDone ==
    /\ pc = "done"
    /\ print_line("DONE", 0)
    /\ exit_status' = 0
    /\ pc' = "exited"
    /\ UNCHANGED << envv, locals, sanv, genv, dbv, csv_files, idx, conn, file_open,
                    processed_tables, tables_found >>

\* The process is gone: the interpreter's teardown released the connection
\* and SQLite rolled back what was not committed.  Only the database file
\* stays.
ProcessEnd ==
    /\ pc = "exited"
    /\ pc' = "ended"
    /\ db' = disk_db
    /\ csv_files' = << >>
    /\ idx' = 0
    /\ conn' = "none"
    /\ in_transaction' = FALSE
    /\ file_open' = FALSE
    /\ raw_name' = << >>
    /\ table_name' = << >>
    /\ headers' = << >>
    /\ rows_to_insert' = << >>
    /\ processed_tables' = << >>
    /\ tables_found' = << >>
    /\ libraries' = << >>
    /\ gidx' = 0
    /\ log' = << >>
    /\ exit_status' = -1
    /\ dbl_written' = [exists |-> FALSE, libraries |-> << >>]
    /\ prev_db' = {}
    /\ folder' = [exists |-> FALSE, listing |-> << >>]
    /\ UNCHANGED << sanv, disk_db, run >>

\* The script is started again on the same database file, on a folder that
\* may have changed.
NewRun ==
    /\ pc = "ended"
    /\ run < MaxRuns
    /\ run' = run + 1
    /\ folder' \in Folders
    /\ prev_db' = disk_db
    /\ pc' = "start"
    /\ UNCHANGED << sanv, locals, dbv, csv_files, idx, conn, file_open, processed_tables,
                    tables_found, libraries, gidx, dbl_written, log, exit_status >>

Next ==
    \/ UpdateDatabaseStart
    \/ LoopHead
    \/ OpenCsv
    \/ ReadCsv
    \/ ExecDrop
    \/ ExecCreate
    \/ ExecInsert
    \/ ExecCommit
    \/ MainAfterPhase1
    \/ GenStart
    \/ GenTable
    \/ GenWrite
    \/ MainDone
    \/ ProcessEnd
    \/ NewRun

Spec == Init /\ [][Next]_vars

\* ------------------------------------------- sanitize_sql_name on its own
SanAlphabet == { "a", "Z", "7", "_", " ", "-", "!" }

SanInputs == UNION { [1..n -> SanAlphabet] : n \in 0..MaxLen }

SanInit ==
    /\ run = 1
    /\ folder = [exists |-> FALSE, listing |-> << >>]
    /\ db = {}
    /\ disk_db = {}
    /\ prev_db = {}
    /\ dbl_written = [exists |-> FALSE, libraries |-> << >>]
    /\ ProcessStart
    /\ san_pc = 0
    /\ san_x \in SanInputs
    /\ san_y = << >>
    /\ san_z = << >>

mainv ==
    << run, folder, pc, csv_files, idx, conn, in_transaction, file_open, raw_name,
       table_name, headers, rows_to_insert, db, disk_db, processed_tables,
       tables_found, libraries, gidx, dbl_written, log, exit_status, prev_db >>

SanitizeOnce ==
    /\ san_pc = 0
    /\ san_y' = sanitize_sql_name(san_x)
    /\ san_pc' = 1
    /\ UNCHANGED << mainv, san_x, san_z >>

SanitizeAgain ==
    /\ san_pc = 1
    /\ san_z' = sanitize_sql_name(san_y)
    /\ san_pc' = 2
    /\ UNCHANGED << mainv, san_x, san_y >>

SanNext == SanitizeOnce \/ SanitizeAgain

SanSpec == SanInit /\ [][SanNext]_vars

\* ------------------------------------------------------------------- claims
Range(seq) == { seq[i] : i \in 1..Len(seq) }

\* The console lines printed while the file at position i was handled.
LinesOf(i) == { m \in Range(log) : m.file = i }

\* A TableSpec was recorded for the file at position i: the [OK] line and
\* the TableSpec are written together.
Recorded(i) == \E m \in LinesOf(i) : m.kind = "OK"

\* SQLite reported the database locked during this run.
LockRaised == \E m \in Range(log) : m.cause = msg_locked

\* The process has ended (and its state is still to be seen).
Exited == pc = "exited"

\* C1: in update_database every failure of a file other than a database-lock
\* error (a read error, or an SQL error of DROP, CREATE, INSERT or commit, a
\* repeated key included) is logged as that file's error, the file is
\* skipped, and the loop handles every remaining file: when no lock was
\* raised the loop has reached the end of csv_files, and every SQL error
\* other than a lock is printed as an SQL error of its file.
C1_OtherFailuresSkipTheFile ==
    /\ (Exited /\ csv_files # << >> /\ ~LockRaised) => idx = Len(csv_files) + 1
    /\ \A m \in Range(log) :
            (m.cause # << >> /\ m.cause # msg_locked)
                => (m.kind = "SQL_ERROR" /\ ~Recorded(m.file))

\* C2: once a file's table is committed and its TableSpec recorded, every
\* later step of the same run leaves that table, with its committed rows, in
\* the database file.
C2_CommittedTableStays ==
    [][ \A t \in disk_db :
            (\E k \in 1..Len(processed_tables) : processed_tables[k].table_name = t.name)
                => t \in disk_db' ]_vars

\* The rows this run loaded from CSV data into the table called name.
LoadedRows(name) ==
    UNION { Range(normalize_rows(Tail(FilePool[csv_files[i]].lines),
                                 Len(Head(FilePool[csv_files[i]].lines)))) :
            i \in { j \in 1..Len(csv_files) :
                      /\ Recorded(j)
                      /\ lower(sanitize_sql_name(splitext_root(FilePool[csv_files[j]].name)))
                            = lower(name) } }

\* C3: when a run that follows another has completed, no table of the
\* database file holds a row the earlier run left there unless the row is in
\* the CSV data this run loaded for that table.
C3_NoStaleRows ==
    (Exited /\ exit_status = 0 /\ run > 1)
        => \A t \in disk_db : \A r \in Range(t.rows) :
              (\E t0 \in prev_db : lower(t0.name) = lower(t.name) /\ r \in Range(t0.rows))
                  => r \in LoadedRows(t.name)

\* The columns a library entry maps: the values of its properties.
MappedColumns(e) == { p[2] : p \in e.properties }

SystemColumnsOf(e) == { e.key, e.symbols, e.footprints }

\* C4: in every library entry the key column, the symbol column and the
\* footprint column are absent from fields and are values of properties, and
\* every other column is in fields exactly once.
C4_SystemColumnsHidden ==
    \A e \in Range(libraries) :
        /\ \A i \in 1..Len(e.fields) : e.fields[i].column \notin SystemColumnsOf(e)
        /\ SystemColumnsOf(e) \subseteq MappedColumns(e)
        /\ \A c \in MappedColumns(e) \ SystemColumnsOf(e) :
              Cardinality({ i \in 1..Len(e.fields) : e.fields[i].column = c }) = 1

\* The TableSpec has a column that is "symbol" and one that is "footprint"
\* when case is ignored.
HasSymbolAndFootprint(table) ==
    /\ \E c \in Range(table.columns) : lower(c) = symbol
    /\ \E c \in Range(table.columns) : lower(c) = footprint

\* The TableSpecs the generator has gone through so far that must be exposed.
Surviving == SelectSeq(SubSeq(tables_found, 1, gidx - 1), HasSymbolAndFootprint)

\* C5: the libraries list holds an entry for a TableSpec exactly when the
\* TableSpec has a symbol and a footprint column (case ignored), and the
\* entries are in the order of the TableSpecs.
C5_LibrariesAreTheSurvivingTables ==
    LET surviving == Surviving
    IN  /\ Len(libraries) = Len(surviving)
        /\ \A i \in 1..Len(libraries) :
              /\ libraries[i].table = surviving[i].table_name
              /\ libraries[i].name = surviving[i].display_name
              /\ libraries[i].key = surviving[i].columns[1]

\* A run wrote an entry for one table and skipped another, and the entry's
\* symbol column is not spelled "symbol".
C5_Witness ==
    /\ Exited
    /\ Len(tables_found) = 2
    /\ Len(libraries) = 1
    /\ libraries[1].symbols # symbol
    /\ dbl_written.exists

\* C6: a database-lock error stops the run at once (nothing is printed after
\* the lock message, the generator does not run, no descriptor is written)
\* and the process ends with a non-zero status; a run without a lock error
\* ends with status 0.
C6_LockStopsOthersExitZero ==
    Exited =>
        IF LockRaised
        THEN /\ exit_status # 0
             /\ log[Len(log)].kind = "LOCKED"
             /\ ~dbl_written.exists
             /\ \A m \in Range(log) : m.kind # "PHASE2"
        ELSE exit_status = 0

\* C7: every file whose handling ended without a TableSpec has a console
\* line that names or explains the skip.
C7_NoSilentSkip ==
    \A i \in 1..Len(csv_files) :
        i < idx =>
            \/ Recorded(i)
            \/ \E m \in LinesOf(i) : m.kind \in {"SKIPPING", "ERROR_READ", "SQL_ERROR"}

\* C8: sanitize_sql_name(sanitize_sql_name(x)) = sanitize_sql_name(x).
C8_SanitizeIdempotent == san_pc = 2 => san_z = san_y

\* A string that loses a character and gains the underscore before a digit.
C8_Witness ==
    /\ san_pc = 2
    /\ Len(san_y) >= 2
    /\ san_y[1] = "_"
    /\ isdigit(san_y[2])
    /\ Len(san_x) >= Len(san_y)
    /\ san_x # san_y

\* C9: when the descriptor is written every entry's table is in the database
\* with exactly the columns the entry maps, its key the first of them, and
\* no two entries name one table.
C9_EntriesMatchTheDatabase ==
    dbl_written.exists =>
        LET libs == dbl_written.libraries
        IN  /\ \A e \in Range(libs) :
                  \E t \in disk_db :
                      /\ lower(t.name) = lower(e.table)
                      /\ Range(t.cols) = MappedColumns(e)
                      /\ t.cols[1] = e.key
            /\ \A i, j \in 1..Len(libs) :
                  i # j => lower(libs[i].table) # lower(libs[j].table)

\* C10: a CSV file handle is closed before the next file is handled, and
\* once update_database is left, by return or by an exception, the
\* connection it opened is closed.
C10_ResourcesReleased ==
    /\ pc = "loop" => ~file_open
    /\ pc \in {"main", "gen_start", "gen_loop", "done", "exited"} =>
          (~file_open /\ conn # "open")

====
